---- MODULE Spec2Model ----
(***************************************************************************)
(* Retrieval-augmented answering over a resume                             *)
(* (resume_parser_agent_openai.py): the chunker, the pickled vector store  *)
(* with its load-or-build logic, the cosine-similarity retriever and       *)
(* answer_query; and the Streamlit app (app.py) that calls answer_query    *)
(* and the job search (job_search_script.py).                              *)
(*                                                                         *)
(* Python indices are 0-based and TLA+ sequences 1-based: a Python index i *)
(* is position i + 1 of the sequence that models the list.                 *)
(***************************************************************************)
EXTENDS Integers, Sequences, FiniteSets, TLC

\* ------------------------------------------------------------------ bounds
MaxLen == 4        \* longest text given to the chunker on its own
MaxSize == 3       \* largest chunk_size given to the chunker on its own
MaxChunks == 3     \* largest number of chunks in a store given to the retriever
MaxTopK == 4       \* largest top_k given to the retriever
NumBlocks == 2     \* writes in which one pickle.dump reaches the file
MaxCalls == 3      \* calls a single caller makes one after the other
MaxConcCalls == 1  \* calls each of two concurrent callers makes
MaxAnswerCalls == 2 \* calls of answer_query a single caller makes
MaxAppCalls == 4   \* calls of answer_query one session of the app makes
MaxListings == 2   \* listings in one response of the job search

\* -------------------------------------------------------- program constants
DefaultChunkSize == 1000
DefaultOverlap == 200
DefaultTopK == 5

VARIABLES
    \* get_text_chunks on its own
    text, chunk_size, overlap, chunks, cpc,
    \* find_similar_chunks on its own
    vector_store, query_embedding, top_k, similarities, top_indices, result, rpc,
    \* a second call on the same store and query with another top_k
    argsorted, top_k2, top_indices2, result2,
    \* create_or_load_vector_store: the storage file and, per caller, the
    \* position in the function, its arguments, its locals and its outcome
    file, active, pc, resume_file, force_reindex, resume_text, text_chunks,
    embeddings, wpos, ret, err, callsLeft,
    \* what each call has observed and done so far, and what the call before
    \* it returned
    atCall, usedExtractor, usedEmbedder, readBlocks, lastBuild, prev,
    \* the statement at which a call failed
    failedAt,
    \* answer_query: its query and its locals, per caller
    query, q_embedding, rel_indices, relevant_chunks, context, prompt, response,
    answer, genCalls,
    \* app.py: the uploader's value, st.session_state, the position of the
    \* script run, its local `skills`, and what the latest run put on the page
    uploaded_file, session_state, apc, skills, shown,
    \* the chunks the running analysis was grounded on, the analysis behind
    \* session_state.resume_data, and the job search of the latest run
    used, analysed, searched

chunkVars == <<text, chunk_size, overlap, chunks, cpc>>
retrVars == <<vector_store, query_embedding, top_k, similarities, top_indices, result, rpc,
              argsorted, top_k2, top_indices2, result2>>
callVars == <<pc, resume_file, force_reindex, resume_text, text_chunks, embeddings,
              wpos, ret, err, callsLeft>>
histVars == <<atCall, usedExtractor, usedEmbedder, readBlocks, lastBuild, prev,
              failedAt>>
ansVars == <<query, q_embedding, rel_indices, relevant_chunks, context, prompt, response,
             answer, genCalls>>
appVars == <<uploaded_file, session_state, apc, skills, shown, used, analysed, searched>>
otherVars == <<chunkVars, retrVars, appVars>>
storeVars == <<file, active, callVars, histVars, ansVars>>
vars == <<otherVars, storeVars>>

Min(a, b) == IF a <= b THEN a ELSE b
Max(a, b) == IF a >= b THEN a ELSE b
CeilDiv(a, b) == IF a <= 0 THEN 0 ELSE ((a + b - 1) \div b)

\* =========================================================================
\* get_text_chunks
\* =========================================================================
Chars == {"a", "b"}
Texts == UNION {[1..n -> Chars] : n \in 0..MaxLen}

\* Python s[lo:hi] for 0 <= lo <= hi: the slice is clipped at the end of s.
Slice(s, lo, hi) == SubSeq(s, lo + 1, Min(hi, Len(s)))

\* range(0, len(text), chunk_size - overlap): the step ...
StrideIgnoresOverlap(size, ovl) == size
Stride(size, ovl) == size - ovl

\* ... and the test that ends the range (the stop value is exclusive).
RangeContinuesInclusive(i, stop) == i <= stop
RangeContinues(i, stop) == i < stop

\* The for loop of get_text_chunks: one append per value of the range.
RECURSIVE ChunkLoop(_, _, _, _, _)
ChunkLoop(t, i, size, ovl, acc) ==
    IF RangeContinues(i, Len(t))
    THEN ChunkLoop(t, i + Stride(size, ovl), size, ovl, Append(acc, Slice(t, i, i + size)))
    ELSE acc

\* A negative step makes range() empty; a zero step makes it raise ValueError
\* (GetTextChunks below).
get_text_chunks(t, size, ovl) ==
    IF Stride(size, ovl) < 0 THEN <<>> ELSE ChunkLoop(t, 0, size, ovl, <<>>)

\* =========================================================================
\* find_similar_chunks
\* =========================================================================
\* Embedding vectors the retriever is exercised with: the zero vector
\* (a degenerate embedding), unit vectors, a vector at 45 degrees and one
\* opposite to a unit vector.
Vecs == {<<0, 0>>, <<1, 0>>, <<0, 1>>, <<1, 1>>, <<-1, 0>>}

RECURSIVE SumTo(_, _)
SumTo(f, n) == IF n = 0 THEN 0 ELSE f[n] + SumTo(f, n - 1)

Dot(a, b) == SumTo([i \in 1..Len(a) |-> a[i] * b[i]], Len(a))
NormSq(a) == Dot(a, a)
Sgn(x) == IF x > 0 THEN 1 ELSE IF x < 0 THEN -1 ELSE 0

\* np.array(embeddings): a list of n >= 1 vectors of length d becomes an
\* array of shape (n, d); the empty list becomes an array of shape (0,).
np_array(embs) ==
    IF embs = <<>>
    THEN [shape |-> <<0>>, data |-> <<>>]
    ELSE [shape |-> <<Len(embs), Len(embs[1])>>, data |-> embs]

\* A float result of line 74 is kept exactly: nan, or the cosine c as the
\* fraction num/den = sign(c) * c^2 (which orders as c does, and is 0 iff c is).
NaN == [nan |-> TRUE, num |-> 0, den |-> 1]

\* np.dot(row, q) / (norm(row) * norm(q)): 0.0 / 0.0 is nan (numpy warns and
\* goes on); a zero norm forces a zero dot product, so x / 0.0 with x # 0
\* does not occur.
Cosine(row, q) ==
    IF NormSq(row) * NormSq(q) = 0
    THEN NaN
    ELSE [nan |-> FALSE,
          num |-> Sgn(Dot(row, q)) * Dot(row, q) * Dot(row, q),
          den |-> NormSq(row) * NormSq(q)]

\* Line 74 raises when the array is 1-D (np.dot of shapes (0,) and (d,) is
\* not aligned, and norm(axis=1) has no axis 1) or its rows are not as long
\* as the query.
SimilarityRaises(vectors, q) ==
    \/ Len(vectors.shape) = 1
    \/ vectors.shape[2] # Len(q)

Similarities(vectors, q) ==
    [i \in 1..Len(vectors.data) |-> Cosine(vectors.data[i], q)]

\* Comparisons of two float results; every comparison with nan is false.
FloatLess(x, y) == ~x.nan /\ ~y.nan /\ x.num * y.den < y.num * x.den
FloatEq(x, y) == ~x.nan /\ ~y.nan /\ x.num * y.den = y.num * x.den

\* The order np.sort and np.argsort use: ascending, nan after every number.
SortsBefore(x, y) == ~x.nan /\ (y.nan \/ FloatLess(x, y))

Perms(n) == {p \in [1..n -> 1..n] : \A i, j \in 1..n : i # j => p[i] # p[j]}

\* np.argsort(similarities) with the default kind ('quicksort', which numpy
\* documents as not stable): some permutation that sorts the values; the
\* order of equal values, and of nans among themselves, is not specified.
ArgsortResults(sims) ==
    {p \in Perms(Len(sims)) :
        \A i, j \in 1..Len(sims) : i < j => ~SortsBefore(sims[p[j]], sims[p[i]])}

\* Python s[-k:] for k >= 0: -0 is 0, so k = 0 gives the whole list, as does
\* any k >= len(s).
TailSliceTakesHead(s, k) == SubSeq(s, 1, Min(k, Len(s)))
TailSlice(s, k) ==
    IF k = 0 \/ k >= Len(s) THEN s ELSE SubSeq(s, Len(s) - k + 1, Len(s))

\* Python s[::-1]
Reverse(s) == [i \in 1..Len(s) |-> s[Len(s) + 1 - i]]

\* top_indices of line 76, given the permutation argsort returned.
TopIndices(p, k) == Reverse(TailSlice(p, k))


\* =========================================================================
\* create_or_load_vector_store
\* =========================================================================
Procs == {1, 2}
Docs == {"resume1.pdf", "resume2.pdf"}

\* What extract_text_from_pdf returns for each document: 1000 characters
\* (two chunks with the default parameters) and 600 characters (one chunk).
DocText(d) ==
    IF d = "resume1.pdf"
    THEN [i \in 1..1000 |-> IF i <= 800 THEN "a" ELSE "b"]
    ELSE [i \in 1..600 |-> "c"]

\* Vectors the embedding service answers with.
EmbedVecs == {<<1, 0>>, <<0, 1>>}

NoStore == [chunks |-> <<>>, vectors |-> [shape |-> <<0>>, data |-> <<>>]]
NoFile == [exists |-> FALSE, blocks |-> <<>>]
NoBuild == [built |-> FALSE, store |-> NoStore, forced |-> FALSE, over |-> NoFile]

\* pickle.dump(vector_store, f) reaches the file in NumBlocks successive
\* writes (the buffered writer flushes as it fills, and at close).
PickleDump(store) == [k \in 1..NumBlocks |-> [of |-> store, part |-> k]]
Hole == [of |-> NoStore, part |-> 0]

\* pickle.load(f) reads the first pickled object of the file; it raises on a
\* file that ends before the object does or whose bytes are not one pickle.
CanUnpickle(blocks) ==
    /\ Len(blocks) >= NumBlocks
    /\ \A k \in 1..NumBlocks : blocks[k].part = k /\ blocks[k].of = blocks[1].of
Unpickle(blocks) == blocks[1].of

\* open(storage_file, 'wb') truncates the file.
OpenedForWrite(blocks) == <<>>

\* A write of block b at offset pos - 1 (in blocks) of the writer's own file
\* position: it overwrites, appends, or leaves a hole of zero bytes behind it
\* when the file was truncated under the writer.
WriteAt(blocks, pos, b) ==
    [k \in 1..Max(Len(blocks), pos) |->
        IF k = pos THEN b ELSE IF k <= Len(blocks) THEN blocks[k] ELSE Hole]

\* Line 41: os.path.exists(storage_file) and not force_reindex
ShouldLoadFlagInverted(exists, force) == exists /\ force
ShouldLoadIgnoresForce(exists, force) == exists
ShouldLoad(exists, force) == exists /\ ~force

\* The statements of the build path, lines 49-68, in program order.
BuildOrderOpensFirst == <<"open_wb", "extract", "chunk", "embed", "dump", "return">>
BuildOrder == <<"extract", "chunk", "embed", "open_wb", "dump", "return">>

StepAfter(label) ==
    LET i == CHOOSE k \in 1..Len(BuildOrder) : BuildOrder[k] = label
    IN  BuildOrder[i + 1]

\* Lines 58-61: the dictionary built from the locals.
VectorStoreOf(p) == [chunks |-> text_chunks[p], vectors |-> np_array(embeddings[p])]

ChunkOff ==
    /\ text = <<>>
    /\ chunk_size = DefaultChunkSize
    /\ overlap = DefaultOverlap
    /\ chunks = <<>>
    /\ cpc = "off"

RetrieveOff ==
    /\ vector_store = NoStore
    /\ query_embedding = <<>>
    /\ top_k = DefaultTopK
    /\ similarities = <<>>
    /\ top_indices = <<>>
    /\ result = <<>>
    /\ rpc = "off"
    /\ argsorted = <<>>
    /\ top_k2 = DefaultTopK
    /\ top_indices2 = <<>>
    /\ result2 = <<>>

NoPrev == [returned |-> FALSE, store |-> NoStore]

\* =========================================================================
\* answer_query
\* =========================================================================
\* A text is a sequence of tokens. The two queries app.py asks (lines 30-31).
SkillsQuery == <<"Extract all technical skills, soft skills, and programming languages from the resume.",
                 "List them as a comma-separated string.">>
ExperienceQuery == <<"Summarize the candidate's work experience in 2-3 sentences.">>
Queries == {SkillsQuery, ExperienceQuery}

\* Line 95: "\n\n---\n\n".join(relevant_chunks)
Delimiter == <<"\n\n---\n\n">>
RECURSIVE JoinWithoutDelimiter(_, _)
JoinWithoutDelimiter(sep, parts) ==
    IF parts = <<>> THEN <<>> ELSE Head(parts) \o JoinWithoutDelimiter(sep, Tail(parts))
RECURSIVE Join(_, _)
Join(sep, parts) ==
    IF parts = <<>> THEN <<>>
    ELSE IF Len(parts) = 1 THEN parts[1]
    ELSE parts[1] \o sep \o Join(sep, Tail(parts))

\* Lines 96-106: the f-string around {context} and {query}.
PromptHead == <<"You are a helpful assistant. Answer the following query based on the provided resume context.",
                "**Resume Context:**">>
PromptMid == <<"**Query:**">>
PromptTail == <<"**Answer:**">>
PromptOf(ctx, q) == PromptHead \o ctx \o PromptMid \o q \o PromptTail

\* What the generation service answers with, and the response object that
\* carries it (response.choices[0].message.content, line 118).
Answers == {<<"Python", ",", " ", "SQL">>, <<"Data", " ", "engineer">>}
NoResponse == [choices |-> <<>>]
ResponseWith(txt) == [choices |-> <<[message |-> [content |-> txt]]>>]

AnswerStart ==
    /\ query = [p \in Procs |-> <<>>]
    /\ q_embedding = [p \in Procs |-> <<>>]
    /\ rel_indices = [p \in Procs |-> <<>>]
    /\ relevant_chunks = [p \in Procs |-> <<>>]
    /\ context = [p \in Procs |-> <<>>]
    /\ prompt = [p \in Procs |-> <<>>]
    /\ response = [p \in Procs |-> NoResponse]
    /\ answer = [p \in Procs |-> <<>>]
    /\ genCalls = [p \in Procs |-> 0]

StoreStart(callers, budget) ==
    /\ file = NoFile
    /\ active = callers
    /\ pc = [p \in Procs |-> "idle"]
    /\ resume_file = [p \in Procs |-> "resume1.pdf"]
    /\ force_reindex = [p \in Procs |-> FALSE]
    /\ resume_text = [p \in Procs |-> <<>>]
    /\ text_chunks = [p \in Procs |-> <<>>]
    /\ embeddings = [p \in Procs |-> <<>>]
    /\ wpos = [p \in Procs |-> 0]
    /\ ret = [p \in Procs |-> NoStore]
    /\ err = [p \in Procs |-> "none"]
    /\ callsLeft = [p \in Procs |-> IF p \in callers THEN budget ELSE 0]
    /\ prev = [p \in Procs |-> NoPrev]
    /\ atCall = [p \in Procs |-> NoFile]
    /\ usedExtractor = [p \in Procs |-> FALSE]
    /\ usedEmbedder = [p \in Procs |-> FALSE]
    /\ readBlocks = [p \in Procs |-> <<>>]
    /\ lastBuild = NoBuild
    /\ failedAt = [p \in Procs |-> "none"]
    /\ AnswerStart

\* The app's state before the page is opened: nothing uploaded, an empty
\* st.session_state (the keys it holds, and their values), an empty page.
None == "None"
NoData == [skills |-> <<>>, experience |-> <<>>]
NoSession == [keys |-> {}, resume_analyzed |-> FALSE, resume_data |-> NoData, jobs |-> <<>>]
NoAnalysis == [doc |-> None, chunks |-> {}]
NoSearch == [ran |-> FALSE, jobs |-> <<>>]
AppStart(at) ==
    /\ uploaded_file = None
    /\ session_state = NoSession
    /\ apc = at
    /\ skills = <<>>
    /\ shown = {}
    /\ used = {}
    /\ analysed = NoAnalysis
    /\ searched = NoSearch
AppOff == AppStart("off")

StoreOff == StoreStart({}, 0) /\ AppOff

\* =========================================================================
\* get_text_chunks called on its own
\* =========================================================================
InitChunk ==
    /\ text \in Texts
    /\ chunk_size \in 1..MaxSize
    /\ overlap \in 0..MaxSize
    /\ chunks = <<>>
    /\ cpc = "start"
    /\ RetrieveOff
    /\ StoreOff

GetTextChunks ==
    /\ cpc = "start"
    /\ IF Stride(chunk_size, overlap) = 0
       THEN /\ cpc' = "raised"
            /\ chunks' = chunks
       ELSE /\ cpc' = "done"
            /\ chunks' = get_text_chunks(text, chunk_size, overlap)
    /\ UNCHANGED <<text, chunk_size, overlap, retrVars, appVars, storeVars>>

NextChunk == GetTextChunks

SpecChunk == InitChunk /\ [][NextChunk]_vars

ValidParams == 0 <= overlap /\ overlap < chunk_size

\* C6 (as the spec states it): for 0 <= overlap < chunk_size and
\* len(T) > overlap, get_text_chunks returns
\* ceil((len(T) - overlap) / (chunk_size - overlap)) chunks.
C6_CountAsClaimed ==
    (cpc = "done" /\ ValidParams /\ Len(text) > overlap)
        => Len(chunks) = CeilDiv(Len(text) - overlap, chunk_size - overlap)

\* C6 (amended): for 0 <= overlap < chunk_size and len(T) > overlap,
\* get_text_chunks returns ceil(len(T) / (chunk_size - overlap)) chunks: one
\* per start offset 0, stride, 2*stride, ... below len(T).
C6_CountIsCeilLenOverStride ==
    (cpc = "done" /\ ValidParams /\ Len(text) > overlap)
        => Len(chunks) = CeilDiv(Len(text), chunk_size - overlap)

\* A run where the two counts differ: the last window starts inside the
\* overlap region of the one before it.
C6_Witness ==
    /\ cpc = "done" /\ ValidParams /\ Len(text) > overlap /\ overlap > 0
    /\ Len(chunks) >= 2
    /\ Len(chunks) > CeilDiv(Len(text) - overlap, chunk_size - overlap)

\* C7: for 0 <= overlap < chunk_size the chunks cover the text without gaps:
\* chunk k is the substring of T that starts at offset (k-1)*(chunk_size-overlap)
\* and is at most chunk_size long, no chunk is empty, and every character
\* position of T lies inside some chunk.
ChunkStart(k) == (k - 1) * (chunk_size - overlap)
C7_ChunksCoverText ==
    (cpc = "done" /\ ValidParams) =>
        /\ \A k \in 1..Len(chunks) :
              /\ Len(chunks[k]) >= 1
              /\ Len(chunks[k]) <= chunk_size
              /\ ChunkStart(k) + Len(chunks[k]) <= Len(text)
              /\ \A j \in 1..Len(chunks[k]) : chunks[k][j] = text[ChunkStart(k) + j]
        /\ \A pos \in 1..Len(text) :
              \E k \in 1..Len(chunks) :
                  ChunkStart(k) < pos /\ pos <= ChunkStart(k) + Len(chunks[k])

\* A text split into several overlapping chunks, the last one shorter.
C7_Witness ==
    /\ cpc = "done" /\ ValidParams /\ overlap > 0
    /\ Len(chunks) >= 2
    /\ Len(chunks[Len(chunks)]) < chunk_size

\* =========================================================================
\* find_similar_chunks called on its own
\* =========================================================================
ChunkText(i) == "chunk" \o ToString(i - 1)

\* The stores line 58-61 builds from n chunks, and an empty store whose
\* array a caller shaped (0, 2) by hand.
Stores ==
    UNION {{[chunks |-> [i \in 1..n |-> ChunkText(i)], vectors |-> np_array(e)] :
               e \in [1..n -> Vecs]} : n \in 0..MaxChunks}
    \cup {[chunks |-> <<>>, vectors |-> [shape |-> <<0, 2>>, data |-> <<>>]]}

InitRetrieve ==
    /\ vector_store \in Stores
    /\ query_embedding \in Vecs
    /\ top_k \in 0..MaxTopK
    /\ similarities = <<>>
    /\ top_indices = <<>>
    /\ result = <<>>
    /\ rpc = "start"
    /\ argsorted = <<>>
    /\ top_k2 = top_k
    /\ top_indices2 = <<>>
    /\ result2 = <<>>
    /\ ChunkOff
    /\ StoreOff

FindSimilarChunks ==
    /\ rpc = "start"
    /\ IF SimilarityRaises(vector_store.vectors, query_embedding)
       THEN /\ rpc' = "raised"
            /\ UNCHANGED <<similarities, top_indices, result, argsorted>>
       ELSE /\ similarities' = Similarities(vector_store.vectors, query_embedding)
            /\ \E p \in ArgsortResults(similarities') :
                   /\ argsorted' = p
                   /\ top_indices' = TopIndices(p, top_k)
            /\ result' = [i \in 1..Len(top_indices') |->
                              vector_store.chunks[top_indices'[i]]]
            /\ rpc' = "done"
    /\ UNCHANGED <<vector_store, query_embedding, top_k, top_k2, top_indices2, result2,
                   chunkVars, appVars, storeVars>>

\* A second call with the same query_embedding and vector_store and a top_k
\* that is not smaller. np.argsort is a function of its input: on the same
\* similarities it returns the permutation it returned before.
FindSimilarChunksAgain ==
    /\ rpc = "done"
    /\ \E k \in top_k..MaxTopK :
           /\ top_k2' = k
           /\ \E p \in ArgsortResults(Similarities(vector_store.vectors, query_embedding)) :
                  /\ p = argsorted
                  /\ top_indices2' = TopIndices(p, k)
    /\ result2' = [i \in 1..Len(top_indices2') |-> vector_store.chunks[top_indices2'[i]]]
    /\ rpc' = "done2"
    /\ UNCHANGED <<vector_store, query_embedding, top_k, similarities, top_indices, result,
                   argsorted, chunkVars, appVars, storeVars>>

NextRetrieve == FindSimilarChunks \/ FindSimilarChunksAgain

SpecRetrieve == InitRetrieve /\ [][NextRetrieve]_vars

NumChunks == Len(vector_store.chunks)
StoredVector(i) == vector_store.vectors.data[i]

\* C5: in the result, chunks are in descending order of similarity, and two
\* returned chunks of equal similarity are in storage order (smaller store
\* index first). Stated over the pairs whose similarities are both numbers.
C5_DescendingTiesInStorageOrder ==
    rpc = "done" =>
        \A i, j \in 1..Len(top_indices) :
            (i < j /\ ~similarities[top_indices[i]].nan
                   /\ ~similarities[top_indices[j]].nan) =>
                /\ ~FloatLess(similarities[top_indices[i]], similarities[top_indices[j]])
                /\ FloatEq(similarities[top_indices[i]], similarities[top_indices[j]])
                       => top_indices[i] < top_indices[j]

\* The similarity the spec defines: the cosine, and 0 for a zero-norm vector.
ClaimedSimilarity(i) ==
    IF NormSq(StoredVector(i)) * NormSq(query_embedding) = 0
    THEN [nan |-> FALSE, num |-> 0, den |-> 1]
    ELSE Cosine(StoredVector(i), query_embedding)

\* C8: with top_k > n >= 1 the result holds all n chunks, each exactly once,
\* in descending order of similarity.
C8_AllChunksRanked ==
    (rpc = "done" /\ NumChunks >= 1 /\ top_k > NumChunks) =>
        /\ Len(top_indices) = NumChunks
        /\ \A c \in 1..NumChunks :
               Cardinality({i \in 1..Len(top_indices) : top_indices[i] = c}) = 1
        /\ \A i, j \in 1..Len(top_indices) :
               i < j => ~FloatLess(ClaimedSimilarity(top_indices[i]),
                                   ClaimedSimilarity(top_indices[j]))

\* C9: a stored vector or a query vector of zero norm gets similarity exactly
\* 0, the call does not fault, and no zero-norm chunk is ranked above a chunk
\* of positive similarity.
ZeroNorm(i) == NormSq(StoredVector(i)) = 0 \/ NormSq(query_embedding) = 0
C9_ZeroNormSimilarityIsZero ==
    (rpc # "start" /\ NumChunks >= 1) =>
        /\ rpc = "done"
        /\ \A i \in 1..NumChunks :
               ZeroNorm(i) => (~similarities[i].nan /\ similarities[i].num = 0)
        /\ \A i, j \in 1..Len(top_indices) :
               (i < j /\ NormSq(StoredVector(top_indices[i])) = 0)
                   => ~(ClaimedSimilarity(top_indices[j]).num > 0)

IsPrefix(a, b) == Len(a) <= Len(b) /\ a = SubSeq(b, 1, Len(a))

\* C11: for the same query vector and store, the result with top_k = k1 is a
\* prefix of the result with top_k = k2, for 1 <= k1 <= k2.
C11_SmallerTopKIsPrefix ==
    (rpc = "done2" /\ 1 <= top_k /\ top_k <= top_k2) =>
        /\ IsPrefix(top_indices, top_indices2)
        /\ IsPrefix(result, result2)

\* Two calls where the larger top_k returns more chunks than the smaller.
C11_Witness ==
    /\ rpc = "done2" /\ 1 <= top_k /\ top_k < top_k2
    /\ Len(result) = top_k
    /\ Len(result2) > Len(result)
    /\ IsPrefix(result, result2)

\* C15: on a non-empty store find_similar_chunks returns at most top_k
\* chunks, for every top_k >= 0; with top_k = 0 it returns the empty list.
C15_AtMostTopK ==
    (rpc \in {"done", "done2"} /\ NumChunks >= 1 /\ top_k >= 0) => Len(result) <= top_k

\* C10: on a store with no chunks find_similar_chunks returns the empty list
\* and raises no error.
C10_EmptyStoreEmptyResult ==
    (rpc # "start" /\ NumChunks = 0) => (rpc = "done" /\ result = <<>>)

\* =========================================================================
\* create_or_load_vector_store called by the callers in `active`
\* =========================================================================
\* The exceptions the library calls raise, none of which the code catches:
\* pypdf's on an unreadable document, the OpenAI client's on a failed
\* embeddings or chat completions request (the same classes for both), and
\* the interruption of a blocking request by the caller.
PdfError == "pypdf.PdfReadError"
OpenAIError == "openai.APIError"
Cancelled == "Cancelled"

\* The statements of answer_query that follow line 86.
AnswerStages == {"query_embed", "find", "generate"}

\* An exception of class `kind` raised by the statement `at` leaves the
\* function (and answer_query, which has no try block either).
Raise(p, kind, at) ==
    /\ pc' = [pc EXCEPT ![p] = "raised"]
    /\ err' = [err EXCEPT ![p] = kind]
    /\ failedAt' = [failedAt EXCEPT ![p] = at]
    /\ resume_text' = [resume_text EXCEPT ![p] = <<>>]
    /\ text_chunks' = [text_chunks EXCEPT ![p] = <<>>]
    /\ embeddings' = [embeddings EXCEPT ![p] = <<>>]

Goto(p, label) == pc' = [pc EXCEPT ![p] = label]
NoRaise == UNCHANGED <<err, failedAt>>

\* create_or_load_vector_store has returned to the caller in this call.
StoreReturned(p) ==
    \/ pc[p] \in {"returned", "find", "generate", "answered"}
    \/ pc[p] = "raised" /\ failedAt[p] \in AnswerStages

\* Entry into create_or_load_vector_store(d, force_reindex=f).
Enter(p, d, f) ==
    /\ p \in active
    /\ callsLeft[p] > 0
    /\ callsLeft' = [callsLeft EXCEPT ![p] = callsLeft[p] - 1]
    /\ prev' = [prev EXCEPT ![p] = [returned |-> StoreReturned(p), store |-> ret[p]]]
    /\ failedAt' = [failedAt EXCEPT ![p] = "none"]
    /\ resume_file' = [resume_file EXCEPT ![p] = d]
    /\ force_reindex' = [force_reindex EXCEPT ![p] = f]
    /\ Goto(p, "check")
    /\ ret' = [ret EXCEPT ![p] = NoStore]
    /\ err' = [err EXCEPT ![p] = "none"]
    /\ wpos' = [wpos EXCEPT ![p] = 0]
    /\ atCall' = [atCall EXCEPT ![p] = file]
    /\ usedExtractor' = [usedExtractor EXCEPT ![p] = FALSE]
    /\ usedEmbedder' = [usedEmbedder EXCEPT ![p] = FALSE]
    /\ readBlocks' = [readBlocks EXCEPT ![p] = <<>>]
    /\ UNCHANGED <<file, active, resume_text, text_chunks, embeddings, lastBuild>>

\* A caller calls create_or_load_vector_store itself.
Call(p) ==
    /\ pc[p] \in {"idle", "returned", "raised"}
    /\ \E d \in Docs, f \in BOOLEAN : Enter(p, d, f)
    /\ UNCHANGED <<ansVars, otherVars>>

\* Lines 80-86: answer_query(q, d, f) calls create_or_load_vector_store at
\* once.
answer_query(p, q, d, f) ==
    /\ pc[p] \in {"idle", "answered", "raised"}
    /\ Enter(p, d, f)
    /\ query' = [query EXCEPT ![p] = q]
    /\ q_embedding' = [q_embedding EXCEPT ![p] = <<>>]
    /\ rel_indices' = [rel_indices EXCEPT ![p] = <<>>]
    /\ relevant_chunks' = [relevant_chunks EXCEPT ![p] = <<>>]
    /\ context' = [context EXCEPT ![p] = <<>>]
    /\ prompt' = [prompt EXCEPT ![p] = <<>>]
    /\ response' = [response EXCEPT ![p] = NoResponse]
    /\ answer' = [answer EXCEPT ![p] = <<>>]
    /\ genCalls' = [genCalls EXCEPT ![p] = 0]

\* A caller calls answer_query.
AnswerQuery(p) ==
    /\ \E q \in Queries, d \in Docs, f \in BOOLEAN : answer_query(p, q, d, f)
    /\ UNCHANGED otherVars

\* Line 41
Check(p) ==
    /\ p \in active
    /\ pc[p] = "check"
    /\ IF ShouldLoad(file.exists, force_reindex[p])
       THEN Goto(p, "open_rb")
       ELSE Goto(p, BuildOrder[1])
    /\ UNCHANGED <<file, active, resume_file, force_reindex, resume_text, text_chunks,
                   embeddings, wpos, ret, err, histVars,
                   callsLeft, otherVars, ansVars>>

\* Line 43: open(storage_file, 'rb'); it fails when the file does not exist.
OpenRb(p) ==
    /\ p \in active
    /\ pc[p] = "open_rb"
    /\ IF file.exists
       THEN Goto(p, "load") /\ NoRaise /\ UNCHANGED <<resume_text, text_chunks, embeddings>>
       ELSE Raise(p, "FileNotFoundError", "open_rb")
    /\ UNCHANGED <<file, active, resume_file, force_reindex, wpos, ret,
                   atCall, usedExtractor, usedEmbedder, readBlocks, lastBuild, prev,
                   callsLeft, otherVars, ansVars>>

\* Line 44: return pickle.load(f)
Load(p) ==
    /\ p \in active
    /\ pc[p] = "load"
    /\ readBlocks' = [readBlocks EXCEPT ![p] = file.blocks]
    /\ IF CanUnpickle(file.blocks)
       THEN /\ ret' = [ret EXCEPT ![p] = Unpickle(file.blocks)]
            /\ Goto(p, "returned")
            /\ NoRaise
            /\ UNCHANGED <<resume_text, text_chunks, embeddings>>
       ELSE /\ Raise(p, "UnpicklingError", "load")
            /\ ret' = ret
    /\ UNCHANGED <<file, active, resume_file, force_reindex, wpos,
                   atCall, usedExtractor, usedEmbedder, lastBuild,
                   callsLeft, prev, otherVars, ansVars>>

\* Line 49: resume_text = extract_text_from_pdf(resume_file); pypdf may raise.
Extract(p) ==
    /\ p \in active
    /\ pc[p] = "extract"
    /\ usedExtractor' = [usedExtractor EXCEPT ![p] = TRUE]
    /\ \/ /\ resume_text' = [resume_text EXCEPT ![p] = DocText(resume_file[p])]
          /\ Goto(p, StepAfter("extract"))
          /\ NoRaise
          /\ UNCHANGED <<text_chunks, embeddings>>
       \/ Raise(p, PdfError, "extract")
    /\ UNCHANGED <<file, active, resume_file, force_reindex, wpos, ret,
                   atCall, usedEmbedder, readBlocks, lastBuild,
                   callsLeft, prev, otherVars, ansVars>>

\* Line 52: text_chunks = get_text_chunks(resume_text)
Chunk(p) ==
    /\ p \in active
    /\ pc[p] = "chunk"
    /\ text_chunks' = [text_chunks EXCEPT ![p] =
                          get_text_chunks(resume_text[p], DefaultChunkSize, DefaultOverlap)]
    /\ Goto(p, StepAfter("chunk"))
    /\ UNCHANGED <<file, active, resume_file, force_reindex, resume_text, embeddings,
                   wpos, ret, err, histVars,
                   callsLeft, otherVars, ansVars>>

\* Line 55: embeddings = get_embeddings(text_chunks, client); the service
\* answers with one vector per text, or the call raises, or the caller
\* interrupts it.
Embed(p) ==
    /\ p \in active
    /\ pc[p] = "embed"
    /\ usedEmbedder' = [usedEmbedder EXCEPT ![p] = TRUE]
    /\ \/ /\ \E e \in [1..Len(text_chunks[p]) -> EmbedVecs] :
                 embeddings' = [embeddings EXCEPT ![p] = e]
          /\ Goto(p, StepAfter("embed"))
          /\ NoRaise
          /\ UNCHANGED <<resume_text, text_chunks>>
       \/ Raise(p, OpenAIError, "embed")
       \/ Raise(p, Cancelled, "embed")
    /\ UNCHANGED <<file, active, resume_file, force_reindex, wpos, ret,
                   atCall, usedExtractor, readBlocks, lastBuild,
                   callsLeft, prev, otherVars, ansVars>>

\* Line 64: open(storage_file, 'wb') creates the file or truncates it.
OpenWb(p) ==
    /\ p \in active
    /\ pc[p] = "open_wb"
    /\ file' = [exists |-> TRUE, blocks |-> OpenedForWrite(file.blocks)]
    /\ wpos' = [wpos EXCEPT ![p] = 0]
    /\ Goto(p, StepAfter("open_wb"))
    /\ UNCHANGED <<active, resume_file, force_reindex, resume_text, text_chunks,
                   embeddings, ret, err, histVars,
                   callsLeft, otherVars, ansVars>>

\* Line 65 and the end of the with block: pickle.dump(vector_store, f), one
\* write per step at the writer's own file position, the last one at close.
Dump(p) ==
    /\ p \in active
    /\ pc[p] = "dump"
    /\ file' = [file EXCEPT !.blocks =
                   WriteAt(file.blocks, wpos[p] + 1, PickleDump(VectorStoreOf(p))[wpos[p] + 1])]
    /\ wpos' = [wpos EXCEPT ![p] = wpos[p] + 1]
    /\ IF wpos[p] + 1 = NumBlocks THEN Goto(p, StepAfter("dump")) ELSE pc' = pc
    /\ UNCHANGED <<active, resume_file, force_reindex, resume_text, text_chunks,
                   embeddings, ret, err, histVars,
                   callsLeft, otherVars, ansVars>>

\* Line 68: return vector_store
Return(p) ==
    /\ p \in active
    /\ pc[p] = "return"
    /\ ret' = [ret EXCEPT ![p] = VectorStoreOf(p)]
    /\ lastBuild' = [built |-> TRUE, store |-> VectorStoreOf(p),
                     forced |-> force_reindex[p], over |-> atCall[p]]
    /\ Goto(p, "returned")
    /\ resume_text' = [resume_text EXCEPT ![p] = <<>>]
    /\ text_chunks' = [text_chunks EXCEPT ![p] = <<>>]
    /\ embeddings' = [embeddings EXCEPT ![p] = <<>>]
    /\ UNCHANGED <<file, active, resume_file, force_reindex, wpos, err, failedAt,
                   atCall, usedExtractor, usedEmbedder, readBlocks,
                   callsLeft, prev, otherVars, ansVars>>

\* Line 89: query_embedding = get_embeddings([query], client)[0]
QueryEmbed(p) ==
    /\ p \in active
    /\ pc[p] = "returned"
    /\ query[p] # <<>>
    /\ \/ /\ \E v \in EmbedVecs : q_embedding' = [q_embedding EXCEPT ![p] = v]
          /\ Goto(p, "find")
          /\ NoRaise
          /\ UNCHANGED <<resume_text, text_chunks, embeddings>>
       \/ Raise(p, OpenAIError, "query_embed") /\ UNCHANGED q_embedding
       \/ Raise(p, Cancelled, "query_embed") /\ UNCHANGED q_embedding
    /\ UNCHANGED <<file, active, resume_file, force_reindex, wpos, ret, callsLeft,
                   atCall, usedExtractor, usedEmbedder, readBlocks, lastBuild, prev,
                   query, rel_indices, relevant_chunks, context, prompt, response,
                   answer, genCalls, otherVars>>

\* Line 92: relevant_chunks = find_similar_chunks(query_embedding, vector_store)
FindSimilar(p) ==
    /\ p \in active
    /\ pc[p] = "find"
    /\ IF SimilarityRaises(ret[p].vectors, q_embedding[p])
       THEN /\ Raise(p, "ValueError", "find")
            /\ UNCHANGED <<rel_indices, relevant_chunks>>
       ELSE /\ \E perm \in ArgsortResults(Similarities(ret[p].vectors, q_embedding[p])) :
                   rel_indices' = [rel_indices EXCEPT ![p] = TopIndices(perm, DefaultTopK)]
            /\ relevant_chunks' = [relevant_chunks EXCEPT ![p] =
                   [i \in 1..Len(rel_indices'[p]) |-> ret[p].chunks[rel_indices'[p][i]]]]
            /\ Goto(p, "generate")
            /\ NoRaise
            /\ UNCHANGED <<resume_text, text_chunks, embeddings>>
    /\ UNCHANGED <<file, active, resume_file, force_reindex, wpos, ret, callsLeft,
                   atCall, usedExtractor, usedEmbedder, readBlocks, lastBuild, prev,
                   query, q_embedding, context, prompt, response, answer, genCalls,
                   otherVars>>

\* Lines 95-118: the context and the prompt are built, the prompt is sent to
\* the chat completions endpoint, and the content of its response is returned;
\* or the request raises, or the caller interrupts it.
Generate(p) ==
    /\ p \in active
    /\ pc[p] = "generate"
    /\ context' = [context EXCEPT ![p] = Join(Delimiter, relevant_chunks[p])]
    /\ prompt' = [prompt EXCEPT ![p] = PromptOf(context'[p], query[p])]
    /\ genCalls' = [genCalls EXCEPT ![p] = genCalls[p] + 1]
    /\ \/ /\ \E a \in Answers : response' = [response EXCEPT ![p] = ResponseWith(a)]
          /\ answer' = [answer EXCEPT ![p] = response'[p].choices[1].message.content]
          /\ Goto(p, "answered")
          /\ NoRaise
          /\ UNCHANGED <<resume_text, text_chunks, embeddings>>
       \/ Raise(p, OpenAIError, "generate") /\ UNCHANGED <<response, answer>>
       \/ Raise(p, Cancelled, "generate") /\ UNCHANGED <<response, answer>>
    /\ UNCHANGED <<file, active, resume_file, force_reindex, wpos, ret, callsLeft,
                   atCall, usedExtractor, usedEmbedder, readBlocks, lastBuild, prev,
                   query, q_embedding, rel_indices, relevant_chunks, otherVars>>

\* The callers call create_or_load_vector_store itself.
Next ==
    \/ \E p \in Procs : Call(p)
    \/ \E p \in Procs : Check(p)
    \/ \E p \in Procs : OpenRb(p)
    \/ \E p \in Procs : Load(p)
    \/ \E p \in Procs : Extract(p)
    \/ \E p \in Procs : Chunk(p)
    \/ \E p \in Procs : Embed(p)
    \/ \E p \in Procs : OpenWb(p)
    \/ \E p \in Procs : Dump(p)
    \/ \E p \in Procs : Return(p)

\* The callers call answer_query.
NextAnswer ==
    \/ \E p \in Procs : AnswerQuery(p)
    \/ \E p \in Procs : QueryEmbed(p)
    \/ \E p \in Procs : FindSimilar(p)
    \/ \E p \in Procs : Generate(p)
    \/ \E p \in Procs : Check(p)
    \/ \E p \in Procs : OpenRb(p)
    \/ \E p \in Procs : Load(p)
    \/ \E p \in Procs : Extract(p)
    \/ \E p \in Procs : Chunk(p)
    \/ \E p \in Procs : Embed(p)
    \/ \E p \in Procs : OpenWb(p)
    \/ \E p \in Procs : Dump(p)
    \/ \E p \in Procs : Return(p)

\* One caller: calls follow one another.
Init == ChunkOff /\ RetrieveOff /\ StoreStart({1}, MaxCalls) /\ AppOff
Spec == Init /\ [][Next]_vars

\* One caller of answer_query: calls follow one another.
InitAnswer == ChunkOff /\ RetrieveOff /\ StoreStart({1}, MaxAnswerCalls) /\ AppOff
SpecAnswer == InitAnswer /\ [][NextAnswer]_vars

\* Two callers of the same storage path at once. The path is free, or holds
\* the store an earlier call built from resume1.pdf.
EarlierStore ==
    [chunks |-> get_text_chunks(DocText("resume1.pdf"), DefaultChunkSize, DefaultOverlap),
     vectors |-> np_array(<<<<1, 0>>, <<0, 1>>>>)]
EarlierFile == [exists |-> TRUE, blocks |-> PickleDump(EarlierStore)]

InitConc ==
    /\ ChunkOff
    /\ RetrieveOff
    /\ \E f \in {NoFile, EarlierFile} :
           /\ file = f
           /\ atCall = [p \in Procs |-> f]
    /\ active = Procs
    /\ pc = [p \in Procs |-> "idle"]
    /\ resume_file = [p \in Procs |-> "resume1.pdf"]
    /\ force_reindex = [p \in Procs |-> FALSE]
    /\ resume_text = [p \in Procs |-> <<>>]
    /\ text_chunks = [p \in Procs |-> <<>>]
    /\ embeddings = [p \in Procs |-> <<>>]
    /\ wpos = [p \in Procs |-> 0]
    /\ ret = [p \in Procs |-> NoStore]
    /\ err = [p \in Procs |-> "none"]
    /\ callsLeft = [p \in Procs |-> MaxConcCalls]
    /\ prev = [p \in Procs |-> NoPrev]
    /\ usedExtractor = [p \in Procs |-> FALSE]
    /\ usedEmbedder = [p \in Procs |-> FALSE]
    /\ readBlocks = [p \in Procs |-> <<>>]
    /\ lastBuild = NoBuild
    /\ failedAt = [p \in Procs |-> "none"]
    /\ AnswerStart
    /\ AppOff
SpecConc == InitConc /\ [][Next]_vars

\* =========================================================================
\* app.py: one browser session of the Streamlit app
\* =========================================================================
\* Streamlit runs the script from top to bottom when the page is opened and
\* after every interaction; st.session_state outlives the runs, the widgets
\* exist as the latest run drew them.

\* ---- str operations on texts of tokens
\* needle in hay
Contains(hay, needle) ==
    \E i \in 0..(Len(hay) - Len(needle)) : SubSeq(hay, i + 1, i + Len(needle)) = needle
\* s.split(sep): the pieces between the separators, empty pieces kept
RECURSIVE Split(_, _)
Split(s, sep) ==
    IF \A i \in 1..Len(s) : s[i] # sep
    THEN <<s>>
    ELSE LET i == CHOOSE i \in 1..Len(s) : s[i] = sep /\ \A j \in 1..(i - 1) : s[j] # sep
         IN <<SubSeq(s, 1, i - 1)>> \o Split(SubSeq(s, i + 1, Len(s)), sep)
\* s.strip()
RECURSIVE Strip(_)
Strip(s) ==
    IF s # <<>> /\ Head(s) = " " THEN Strip(Tail(s))
    ELSE IF s # <<>> /\ s[Len(s)] = " " THEN Strip(SubSeq(s, 1, Len(s) - 1))
    ELSE s
NonEmpty(s) == s # <<>>
\* s.split(): the words between runs of whitespace
Words(s) == SelectSeq(Split(s, " "), NonEmpty)
\* s.lower()
LowerToken(t) ==
    CASE t = "Python" -> "python"
      [] t = "SQL" -> "sql"
      [] t = "Data" -> "data"
      [] t = "JavaScript" -> "javascript"
      [] t = "Title" -> "title"
      [] t = "Company" -> "company"
      [] t = "Description" -> "description"
      [] OTHER -> t
Lower(s) == [i \in 1..Len(s) |-> LowerToken(s[i])]

\* ---- job_search_script.py
\* The model's response is listings separated by blank lines; a listing is
\* lines; a line with a colon splits into key and value (line 77).
KeyValue(k, v) == [colon |-> TRUE, key |-> k, value |-> v]
Plain(v) == [colon |-> FALSE, key |-> "", value |-> v]
Preamble == <<Plain(<<"Here are the most relevant positions.">>)>>
DataJob == <<KeyValue("Title", <<"Data Engineer">>),
             KeyValue("Company", <<"Acme">>),
             KeyValue("Description", <<"Python", " ", "pipelines">>)>>
WebJob == <<KeyValue("Title", <<"Web Developer">>),
            KeyValue("Description", <<"JavaScript">>)>>
Listings == {Preamble, DataJob, WebJob}
ResponseTexts == UNION {[1..n -> Listings] : n \in 0..MaxListings}

HasColon(line) == line.colon
\* Line 68: 'Title:' in listing
HasTitle(listing) == \E i \in 1..Len(listing) : listing[i].colon /\ listing[i].key = "Title"
\* Lines 71-85: the dict of a listing; a later line replaces an earlier one
\* of the same key.
JobOf(listing) ==
    LET ls == SelectSeq(listing, HasColon)
        key(i) == LowerToken(ls[i].key)
    IN [k \in {key(i) : i \in 1..Len(ls)} |->
           ls[CHOOSE i \in 1..Len(ls) : key(i) = k /\ \A j \in (i + 1)..Len(ls) : key(j) # k].value]
parse_job_listings(response_text) ==
    LET kept == SelectSeq(response_text, HasTitle)
    IN [i \in 1..Len(kept) |-> JobOf(kept[i])]

\* Lines 94-105. The score counts in halves: match_score holds twice the
\* float the code stores.
JobDesc(job) == IF "description" \in DOMAIN job THEN Lower(job["description"]) ELSE <<>>
Score(job, resume_data) ==
    2 * Cardinality({i \in 1..Len(resume_data.skills) :
                        Contains(JobDesc(job), Lower(resume_data.skills[i]))})
    + Cardinality({i \in 1..Len(resume_data.experience) :
                      LET kws == Words(Lower(resume_data.experience[i]))
                      IN \E k \in 1..Len(kws) : Contains(JobDesc(job), kws[k])})
Scored(job, resume_data) ==
    [k \in DOMAIN job \cup {"match_score"} |->
        IF k = "match_score" THEN Score(job, resume_data) ELSE job[k]]
\* Line 107: sorted(..., reverse=True) is stable: equal scores keep their order.
InsertJob(sorted, job) ==
    LET k == Cardinality({i \in 1..Len(sorted) :
                             sorted[i]["match_score"] >= job["match_score"]})
    IN SubSeq(sorted, 1, k) \o <<job>> \o SubSeq(sorted, k + 1, Len(sorted))
RECURSIVE SortedByScore(_)
SortedByScore(jobs) ==
    IF jobs = <<>> THEN <<>>
    ELSE InsertJob(SortedByScore(SubSeq(jobs, 1, Len(jobs) - 1)), jobs[Len(jobs)])
score_and_rank_jobs(jobs, resume_data) ==
    SortedByScore([i \in 1..Len(jobs) |-> Scored(jobs[i], resume_data)])

\* Lines 12-34: what search_jobs can return: [] when the request (or anything
\* in the try block) raises, the ranked parse of the response otherwise.
search_jobs(resume_data) ==
    {<<>>} \cup {score_and_rank_jobs(parse_job_listings(t), resume_data) : t \in ResponseTexts}

\* ---- the script
\* The handler is over: the frames of its calls of answer_query are gone.
Forget(p) ==
    /\ pc' = [pc EXCEPT ![p] = "idle"]
    /\ resume_file' = [resume_file EXCEPT ![p] = "resume1.pdf"]
    /\ force_reindex' = [force_reindex EXCEPT ![p] = FALSE]
    /\ resume_text' = [resume_text EXCEPT ![p] = <<>>]
    /\ text_chunks' = [text_chunks EXCEPT ![p] = <<>>]
    /\ embeddings' = [embeddings EXCEPT ![p] = <<>>]
    /\ wpos' = [wpos EXCEPT ![p] = 0]
    /\ ret' = [ret EXCEPT ![p] = NoStore]
    /\ err' = [err EXCEPT ![p] = "none"]
    /\ failedAt' = [failedAt EXCEPT ![p] = "none"]
    /\ prev' = [prev EXCEPT ![p] = NoPrev]
    /\ atCall' = [atCall EXCEPT ![p] = NoFile]
    /\ usedExtractor' = [usedExtractor EXCEPT ![p] = FALSE]
    /\ usedEmbedder' = [usedEmbedder EXCEPT ![p] = FALSE]
    /\ readBlocks' = [readBlocks EXCEPT ![p] = <<>>]
    /\ query' = [query EXCEPT ![p] = <<>>]
    /\ q_embedding' = [q_embedding EXCEPT ![p] = <<>>]
    /\ rel_indices' = [rel_indices EXCEPT ![p] = <<>>]
    /\ relevant_chunks' = [relevant_chunks EXCEPT ![p] = <<>>]
    /\ context' = [context EXCEPT ![p] = <<>>]
    /\ prompt' = [prompt EXCEPT ![p] = <<>>]
    /\ response' = [response EXCEPT ![p] = NoResponse]
    /\ answer' = [answer EXCEPT ![p] = <<>>]
    /\ genCalls' = [genCalls EXCEPT ![p] = 0]
    /\ UNCHANGED <<file, active, callsLeft, lastBuild>>

\* st.session_state.get('resume_analyzed')
Analyzed(ss) == "resume_analyzed" \in ss.keys /\ ss.resume_analyzed
\* The truth value of a list: a list is true when it is not empty.
Truthy(list) == list # <<>>
\* Lines 16-27
UploadSection(up) ==
    {"uploader"} \cup (IF up # None THEN {"success", "analyze_button"} ELSE {})
\* Lines 42-45
ExtractedSection(ss, up) == IF up # None /\ Analyzed(ss) THEN {"extracted"} ELSE {}
\* Lines 49-55
FilterSection(ss) == IF Analyzed(ss) THEN {"filters", "search_button"} ELSE {}
\* Lines 69-78
JobsSection(ss) ==
    IF "jobs" \in ss.keys /\ Truthy(ss.jobs)
    THEN IF ~Truthy(ss.jobs) THEN {"warning"} ELSE {"listings"}
    ELSE {}
\* Lines 92-95
InitialState(ss) ==
    [ss EXCEPT !.keys = @ \cup {"resume_analyzed", "jobs"},
               !.resume_analyzed = IF "resume_analyzed" \in ss.keys THEN @ ELSE FALSE,
               !.jobs = IF "jobs" \in ss.keys THEN @ ELSE <<>>]

\* A run in which no button is pressed, with `up` in the uploader.
PlainRun(up) ==
    /\ shown' = UploadSection(up) \cup ExtractedSection(session_state, up)
                    \cup FilterSection(session_state) \cup JobsSection(session_state)
    /\ session_state' = InitialState(session_state)
    /\ searched' = NoSearch
    /\ UNCHANGED <<apc, skills, used, analysed, chunkVars, retrVars, storeVars>>

\* The page is opened or reloaded, or a filter widget is changed.
Rerun ==
    /\ apc = "waiting"
    /\ PlainRun(uploaded_file)
    /\ UNCHANGED uploaded_file

\* The user puts a resume into the uploader, or takes it out.
UploadResume ==
    /\ apc = "waiting"
    /\ "uploader" \in shown
    /\ \E d \in Docs \cup {None} :
           /\ d # uploaded_file
           /\ uploaded_file' = d
           /\ PlainRun(d)

\* "Analyze Resume" is pressed: the run reaches line 33 and calls
\* answer_query(skills_query, resume_path), where resume_path holds the
\* uploaded document.
ClickAnalyze ==
    /\ apc = "waiting"
    /\ "analyze_button" \in shown
    /\ callsLeft[1] >= 2
    /\ shown' = UploadSection(uploaded_file)
    /\ answer_query(1, SkillsQuery, uploaded_file, FALSE)
    /\ apc' = "skills"
    /\ used' = {}
    /\ searched' = NoSearch
    /\ UNCHANGED <<uploaded_file, session_state, skills, analysed, chunkVars, retrVars>>

\* Lines 33-34: the first call has returned; the second is made.
SkillsAnswered ==
    /\ apc = "skills"
    /\ pc[1] = "answered"
    /\ skills' = answer[1]
    /\ used' = used \cup {relevant_chunks[1][i] : i \in 1..Len(relevant_chunks[1])}
    /\ answer_query(1, ExperienceQuery, uploaded_file, FALSE)
    /\ apc' = "experience"
    /\ UNCHANGED <<uploaded_file, session_state, shown, analysed, searched, chunkVars,
                   retrVars>>

\* Lines 34-95: the second call has returned; the results go to the session
\* state and the rest of the script runs.
ExperienceAnswered ==
    /\ apc = "experience"
    /\ pc[1] = "answered"
    /\ LET experience == answer[1]
           parts == Split(skills, ",")
           ss == [session_state EXCEPT
                     !.keys = @ \cup {"resume_data", "resume_analyzed"},
                     !.resume_data = [skills |-> [i \in 1..Len(parts) |-> Strip(parts[i])],
                                      experience |-> <<experience>>],
                     !.resume_analyzed = TRUE]
       IN /\ shown' = shown \cup ExtractedSection(ss, uploaded_file) \cup FilterSection(ss)
                          \cup JobsSection(ss)
          /\ session_state' = InitialState(ss)
    /\ analysed' = [doc |-> uploaded_file,
                    chunks |-> used \cup {relevant_chunks[1][i] :
                                             i \in 1..Len(relevant_chunks[1])}]
    /\ apc' = "waiting"
    /\ skills' = <<>>
    /\ used' = {}
    /\ Forget(1)
    /\ UNCHANGED <<uploaded_file, searched, chunkVars, retrVars>>

\* A call of answer_query raised: nothing catches it, Streamlit shows the
\* exception and the run ends there.
AnalyzeRaised ==
    /\ apc \in {"skills", "experience"}
    /\ pc[1] = "raised"
    /\ shown' = shown \cup {"exception"}
    /\ apc' = "waiting"
    /\ skills' = <<>>
    /\ used' = {}
    /\ Forget(1)
    /\ UNCHANGED <<uploaded_file, session_state, analysed, searched, chunkVars, retrVars>>

\* "Search for Jobs" is pressed: lines 55-66 store what search_jobs returns,
\* and the rest of the script runs.
ClickSearch ==
    /\ apc = "waiting"
    /\ "search_button" \in shown
    /\ Analyzed(session_state)
    /\ \E jobs \in search_jobs(session_state.resume_data) :
           LET ss == [session_state EXCEPT !.keys = @ \cup {"jobs"}, !.jobs = jobs]
           IN /\ shown' = UploadSection(uploaded_file)
                              \cup ExtractedSection(session_state, uploaded_file)
                              \cup FilterSection(session_state) \cup {"matches_header"}
                              \cup JobsSection(ss)
              /\ session_state' = InitialState(ss)
              /\ searched' = [ran |-> TRUE, jobs |-> jobs]
    /\ UNCHANGED <<uploaded_file, apc, skills, used, analysed, chunkVars, retrVars,
                   storeVars>>

NextApp ==
    \/ Rerun
    \/ UploadResume
    \/ ClickAnalyze
    \/ SkillsAnswered
    \/ ExperienceAnswered
    \/ AnalyzeRaised
    \/ ClickSearch
    \/ \E p \in Procs : Check(p)
    \/ \E p \in Procs : OpenRb(p)
    \/ \E p \in Procs : Load(p)
    \/ \E p \in Procs : Extract(p)
    \/ \E p \in Procs : Chunk(p)
    \/ \E p \in Procs : Embed(p)
    \/ \E p \in Procs : OpenWb(p)
    \/ \E p \in Procs : Dump(p)
    \/ \E p \in Procs : Return(p)
    \/ \E p \in Procs : QueryEmbed(p)
    \/ \E p \in Procs : FindSimilar(p)
    \/ \E p \in Procs : Generate(p)

InitApp == ChunkOff /\ RetrieveOff /\ StoreStart({1}, MaxAppCalls) /\ AppStart("waiting")
SpecApp == InitApp /\ [][NextApp]_vars


\* -------------------------------------------------------------------------
\* Claims about create_or_load_vector_store
\* -------------------------------------------------------------------------
\* The call is inside create_or_load_vector_store, past line 41, or has just
\* left it.
InCall(p) ==
    /\ p \in active
    /\ \/ pc[p] \in {"open_rb", "load", "extract", "chunk", "embed", "open_wb", "dump",
                     "return", "returned"}
       \/ pc[p] = "raised" /\ failedAt[p] \notin AnswerStages
Finished(p) == p \in active /\ pc[p] \in {"returned", "raised"}
\* The call took the load branch of line 41 and has come to its end.
LoadFinished(p) == Finished(p) /\ ~usedExtractor[p] /\ err[p] # "FileNotFoundError"
BuiltFrom(store, d) ==
    /\ store.chunks = get_text_chunks(DocText(d), DefaultChunkSize, DefaultOverlap)
    /\ store.vectors.shape = <<Len(store.chunks), 2>>
    /\ Len(store.vectors.data) = Len(store.chunks)

\* C1: a call that loads while another call rebuilds the same path reads a
\* complete store (the old one or the new one), never an empty, truncated or
\* partly written file.
C1_LoadNeverReadsPartialFile ==
    \A p \in Procs :
        (LoadFinished(p) /\ CanUnpickle(atCall[p].blocks)) => CanUnpickle(readBlocks[p])

\* C2: when extraction or chunk embedding fails in a build, the storage file
\* is exactly as it was when the call started (absent if it was absent, the
\* previous complete content otherwise).
C2_FailedBuildLeavesFile ==
    \A p \in Procs :
        (p \in active /\ pc[p] = "raised" /\ failedAt[p] \in {"extract", "embed"})
            => file = atCall[p]

\* A forced rebuild over an existing store whose embedding call failed.
C2_Witness ==
    \E p \in Procs :
        /\ p \in active /\ pc[p] = "raised" /\ failedAt[p] = "embed" /\ err[p] = OpenAIError
        /\ force_reindex[p] /\ atCall[p].exists /\ CanUnpickle(atCall[p].blocks)

\* C3: with the storage file present and force_reindex false the call returns
\* exactly the persisted pair, calls neither the extractor nor the embedder
\* and leaves the file as it was; so a call that follows a call that returned
\* returns the same pair again.
C3_LoadReturnsPersistedPair ==
    \A p \in Procs :
        (InCall(p) /\ atCall[p].exists /\ ~force_reindex[p]) =>
            /\ ~usedExtractor[p] /\ ~usedEmbedder[p]
            /\ file = atCall[p]
            /\ pc[p] # "raised"
            /\ pc[p] = "returned" =>
                   /\ CanUnpickle(atCall[p].blocks)
                   /\ ret[p] = Unpickle(atCall[p].blocks)
                   /\ prev[p].returned => ret[p] = prev[p].store

\* Two consecutive loads of a built store, both returned.
C3_Witness ==
    \E p \in Procs :
        /\ p \in active /\ pc[p] = "returned" /\ atCall[p].exists /\ ~force_reindex[p]
        /\ prev[p].returned /\ prev[p].store = ret[p] /\ ret[p] # NoStore
        /\ callsLeft[p] = 0

\* C4: when a call with force_reindex = true has returned, the storage file
\* holds the pair built from the document of that call, which is the pair it
\* returned; a later call with force_reindex = false returns that pair.
C4_RebuildReplacesStore ==
    \A p \in Procs :
        /\ (p \in active /\ pc[p] = "returned" /\ force_reindex[p]) =>
               /\ BuiltFrom(ret[p], resume_file[p])
               /\ CanUnpickle(file.blocks)
               /\ Unpickle(file.blocks) = ret[p]
        /\ (p \in active /\ pc[p] = "returned" /\ ~force_reindex[p] /\ lastBuild.built) =>
               ret[p] = lastBuild.store

\* A load that follows a forced rebuild over the store of another document.
C4_Witness ==
    \E p \in Procs :
        /\ p \in active /\ pc[p] = "returned" /\ ~force_reindex[p]
        /\ lastBuild.built /\ lastBuild.forced /\ lastBuild.over.exists
        /\ CanUnpickle(lastBuild.over.blocks)
        /\ Unpickle(lastBuild.over.blocks).chunks # lastBuild.store.chunks
        /\ ret[p] = lastBuild.store
        /\ BuiltFrom(ret[p], "resume2.pdf")

\* -------------------------------------------------------------------------
\* Claims about answer_query
\* -------------------------------------------------------------------------
\* The stage of answer_query a failing statement belongs to.
StageOf(at) ==
    CASE at \in {"extract", "embed"} -> "build"
      [] at = "query_embed" -> "query embedding"
      [] at = "generate" -> "generation"
      [] OTHER -> "other"

\* C12: the error kind answer_query fails with tells the stage that failed:
\* RetrievalBuildError for extraction or chunk embedding in a build,
\* EmbeddingError for the query embedding, SynthesisError for generation (so
\* no two of these stages fail with the same kind).
C12_ErrorKindTellsStage ==
    \A p \in Procs :
        (p \in active /\ pc[p] = "raised" /\ err[p] # Cancelled) =>
            /\ StageOf(failedAt[p]) = "build" => err[p] = "RetrievalBuildError"
            /\ StageOf(failedAt[p]) = "query embedding" => err[p] = "EmbeddingError"
            /\ StageOf(failedAt[p]) = "generation" => err[p] = "SynthesisError"

\* C13: when an embedding call or the generation call of answer_query is
\* cancelled, the call fails and the storage file is exactly as it was when
\* the call started.
C13_CancelLeavesFile ==
    \A p \in Procs :
        (p \in active /\ pc[p] = "raised" /\ err[p] = Cancelled) => file = atCall[p]

\* The similarity line 74 gives chunk i of the store the call works on.
SimilarityOf(p, i) == Cosine(ret[p].vectors.data[i], q_embedding[p])

RECURSIVE TotalLen(_)
TotalLen(parts) == IF parts = <<>> THEN 0 ELSE Len(Head(parts)) + TotalLen(Tail(parts))
\* ctx is parts[1], sep, parts[2], sep, ..., parts[n], read off position by
\* position.
IsJoined(ctx, sep, parts) ==
    LET n == Len(parts)
        off(k) == TotalLen(SubSeq(parts, 1, k - 1)) + (k - 1) * Len(sep)
    IN /\ Len(ctx) = TotalLen(parts) + Max(n - 1, 0) * Len(sep)
       /\ \A k \in 1..n : SubSeq(ctx, off(k) + 1, off(k) + Len(parts[k])) = parts[k]
       /\ \A k \in 1..(n - 1) :
              SubSeq(ctx, off(k) + Len(parts[k]) + 1, off(k + 1)) = sep

\* C14: the context is the retrieved chunks, highest similarity first, joined
\* by the delimiter; the prompt holds the context and the query verbatim; the
\* value returned is the generated text; the generation service is called
\* once per call of answer_query, and only after retrieval.
C14_ContextPromptAndAnswer ==
    \A p \in Procs :
        /\ (p \in active /\ genCalls[p] > 0) =>
               /\ genCalls[p] = 1
               /\ pc[p] \in {"answered", "raised"}
               /\ rel_indices[p] # <<>>
               /\ relevant_chunks[p] =
                      [i \in 1..Len(rel_indices[p]) |-> ret[p].chunks[rel_indices[p][i]]]
               /\ \A i, j \in 1..Len(rel_indices[p]) :
                      i < j => ~FloatLess(SimilarityOf(p, rel_indices[p][i]),
                                          SimilarityOf(p, rel_indices[p][j]))
               /\ IsJoined(context[p], Delimiter, relevant_chunks[p])
               /\ Contains(prompt[p], context[p])
               /\ Contains(prompt[p], query[p])
        /\ (p \in active /\ pc[p] = "answered") =>
               /\ genCalls[p] = 1
               /\ response[p].choices # <<>>
               /\ answer[p] = response[p].choices[1].message.content
        /\ (p \in active /\ pc[p] \in {"check", "open_rb", "load", "extract", "chunk", "embed",
                                         "open_wb", "dump", "return", "returned", "find",
                                         "generate"}) => genCalls[p] = 0

\* An answer grounded on two chunks of different similarity.
C14_Witness ==
    \E p \in Procs :
        /\ p \in active /\ pc[p] = "answered" /\ answer[p] \in Answers
        /\ Len(relevant_chunks[p]) = 2
        /\ FloatLess(SimilarityOf(p, rel_indices[p][2]), SimilarityOf(p, rel_indices[p][1]))

\* -------------------------------------------------------------------------
\* Claims about the app
\* -------------------------------------------------------------------------
ChunksOf(d) ==
    LET cs == get_text_chunks(DocText(d), DefaultChunkSize, DefaultOverlap)
    IN {cs[i] : i \in 1..Len(cs)}

\* C16: the skills and experience in the session state were derived from
\* chunks of the resume that was in the uploader when "Analyze Resume" was
\* pressed, also when another resume was analysed before.
C16_AnalysisUsesUploadedResume ==
    (Analyzed(session_state) /\ analysed.doc # None) =>
        analysed.chunks \subseteq ChunksOf(analysed.doc)

\* C17: a run of the script in which the job search returned an empty list
\* shows the warning "No jobs found matching your criteria.".
C17_EmptySearchShowsWarning ==
    (searched.ran /\ searched.jobs = <<>>) => "warning" \in shown

====
